---- MODULE Spec2Model ----
(***************************************************************************)
(* Model of the sudoku verifier: the validator of lib/src/lib.rs, the     *)
(* zkVM program of program/src/main.rs that commits its result, the        *)
(* fixture decoder of script/src/bin/evm.rs and the request handler of     *)
(* script/src/bin/main.rs with its two proving backends.                   *)
(*                                                                         *)
(* Two state machines share the variables:                                 *)
(*   SpecProgram  the zkVM program run on arbitrary grids, followed by     *)
(*                create_proof_fixture decoding the committed bytes;       *)
(*   Spec         the API server handling one request after another        *)
(*                (FairSpec adds that a running handler keeps stepping).   *)
(***************************************************************************)
EXTENDS Integers, Sequences, FiniteSets, TLC

VARIABLES
    pc,                  \* position of the program / of the request handler
    board,               \* the puzzle grid, [0..8 -> [0..8 -> u8]]
    solution,            \* the solution grid
    edits,               \* number of input edits made so far (SpecProgram)
    is_valid,            \* `is_valid` local of main / validate_sudoku
    public_values,       \* bytes committed by the zkVM program
    fixture_is_valid,    \* `is_valid` field of SP1SudokuProofFixture
    SP1_PROVER,          \* environment variable, <<>> when unset
    NETWORK_PRIVATE_KEY, \* environment variable, <<>> when unset
    raw,                 \* the JSON body of the request being handled
    proof_generated,     \* local of validate_sudoku
    job_id,              \* local of validate_sudoku, <<>> is None
    network_used,        \* local of validate_sudoku
    result,              \* value returned by generate_*_proof
    response,            \* the SudokuResponse sent, if any
    backend,             \* which generate_*_proof the handler entered
    outcome,             \* how the backend's prove invocation ended
    proveCalls,          \* prove invocations of this request, per backend
    verifyCalls          \* verify_sudoku calls of this request

vars == <<pc, board, solution, edits, is_valid, public_values, fixture_is_valid,
          SP1_PROVER, NETWORK_PRIVATE_KEY, raw, proof_generated, job_id,
          network_used, result, response, backend, outcome, proveCalls,
          verifyCalls>>

handlerVars == <<SP1_PROVER, NETWORK_PRIVATE_KEY, raw, proof_generated, job_id,
                 network_used, result, response, backend, outcome, proveCalls,
                 verifyCalls>>

programVars == <<edits, public_values, fixture_is_valid>>

(***************************************************************************)
(* Constants of the program and bounds of the model.                       *)
(***************************************************************************)
SUDOKU_SIZE == 9

GRID_SIZE == 3

U8_MAX == 255

\* Bound: how many edits the input generator applies to the example grids.
MaxEdits == 3

Idx == 0 .. (SUDOKU_SIZE - 1)

(***************************************************************************)
(* Grids.  A JSON grid is a sequence of rows; a decoded grid is indexed    *)
(* from 0 as the Rust arrays are.                                          *)
(***************************************************************************)
ExampleBoardRows ==
    << <<5, 3, 0, 0, 7, 0, 0, 0, 0>>,
       <<6, 0, 0, 1, 9, 5, 0, 0, 0>>,
       <<0, 9, 8, 0, 0, 0, 0, 6, 0>>,
       <<8, 0, 0, 0, 6, 0, 0, 0, 3>>,
       <<4, 0, 0, 8, 0, 3, 0, 0, 1>>,
       <<7, 0, 0, 0, 2, 0, 0, 0, 6>>,
       <<0, 6, 0, 0, 0, 0, 2, 8, 0>>,
       <<0, 0, 0, 4, 1, 9, 0, 0, 5>>,
       <<0, 0, 0, 0, 8, 0, 0, 7, 9>> >>

ExampleSolutionRows ==
    << <<5, 3, 4, 6, 7, 8, 9, 1, 2>>,
       <<6, 7, 2, 1, 9, 5, 3, 4, 8>>,
       <<1, 9, 8, 3, 4, 2, 5, 6, 7>>,
       <<8, 5, 9, 7, 6, 1, 4, 2, 3>>,
       <<4, 2, 6, 8, 5, 3, 7, 9, 1>>,
       <<7, 1, 3, 9, 2, 4, 8, 5, 6>>,
       <<9, 6, 1, 5, 3, 7, 2, 8, 4>>,
       <<2, 8, 7, 4, 1, 9, 6, 3, 5>>,
       <<3, 4, 5, 2, 8, 6, 1, 7, 9>> >>

\* The array [[u8; 9]; 9] holding the rows of a well-shaped JSON grid.
ToGrid(rows) == [i \in Idx |-> [j \in Idx |-> rows[i + 1][j + 1]]]

EmptyGrid == [i \in Idx |-> [j \in Idx |-> 0]]

(***************************************************************************)
(* lib.rs: the validator.                                                  *)
(***************************************************************************)
\* for i, for j: a clue of the board that the solution changes => false
check_board_solution_consistency(b, s) ==
    ~ \E i \in Idx : \E j \in Idx : b[i][j] # 0 /\ b[i][j] # s[i][j]

\* One pass of the `used` array over the nine cells of a row, column or box:
\* `cells` lists the cells in visiting order, k is the next one to visit.
RECURSIVE ScanUsed(_, _, _)
ScanUsed(cells, k, used) ==
    IF k > Len(cells) THEN TRUE
    ELSE LET num == cells[k] IN
         IF num = 0 \/ num > 9 \/ used[num] THEN FALSE
         ELSE ScanUsed(cells, k + 1, [used EXCEPT ![num] = TRUE])

\* let mut used = [false; SUDOKU_SIZE + 1]
FreshUsed == [n \in 0 .. SUDOKU_SIZE |-> FALSE]

RowCells(s, row) == [k \in 1 .. SUDOKU_SIZE |-> s[row][k - 1]]

ColCells(s, col) == [k \in 1 .. SUDOKU_SIZE |-> s[k - 1][col]]

\* row-major walk of the box: row = (k-1) / 3, col = (k-1) % 3
BoxCells(s, box_row, box_col) ==
    [k \in 1 .. (GRID_SIZE * GRID_SIZE) |->
        s[box_row * GRID_SIZE + ((k - 1) \div GRID_SIZE)]
         [box_col * GRID_SIZE + ((k - 1) % GRID_SIZE)]]

RowsValid(s) == \A row \in Idx : ScanUsed(RowCells(s, row), 1, FreshUsed)

ColsValidSkipped(s) == TRUE

ColsValid(s) == \A col \in Idx : ScanUsed(ColCells(s, col), 1, FreshUsed)

BoxesValid(s) ==
    \A box_row \in 0 .. (GRID_SIZE - 1) : \A box_col \in 0 .. (GRID_SIZE - 1) :
        ScanUsed(BoxCells(s, box_row, box_col), 1, FreshUsed)

is_valid_solution(s) == RowsValid(s) /\ ColsValid(s) /\ BoxesValid(s)

verify_sudoku(b, s) ==
    IF ~ check_board_solution_consistency(b, s) THEN FALSE
    ELSE IF ~ is_valid_solution(s) THEN FALSE
    ELSE TRUE

(***************************************************************************)
(* The public-output codec.  PublicValuesStruct has one bool field; its    *)
(* ABI encoding is one 32-byte word, big-endian, holding 0 or 1.           *)
(***************************************************************************)
ABI_WORD == 32

abi_encode(v) == [k \in 1 .. ABI_WORD |-> IF k = ABI_WORD /\ v THEN 1 ELSE 0]

DecodeFirstByte(bytes) == Len(bytes) > 0 /\ bytes[1] = 1

\* bytes.len() > 0 && bytes[bytes.len() - 1] == 1
DecodeIsValid(bytes) == Len(bytes) > 0 /\ bytes[Len(bytes)] = 1

(***************************************************************************)
(* Values shared by both machines.                                         *)
(***************************************************************************)
None == <<>>

Some(x) == <<x>>

NoResult == [tag |-> "None", err |-> <<>>, proof |-> <<>>, job |-> None]

NoResponse ==
    [sent |-> FALSE, is_valid |-> FALSE, proof_generated |-> FALSE,
     job_id |-> None, network_used |-> FALSE]

NoOutcome == [kind |-> "none", detail |-> ""]

NoCalls == [Local |-> 0, Remote |-> 0]

\* The per-request state of the server before any request has arrived.
HandlerIdle ==
    /\ raw = [board |-> <<>>, solution |-> <<>>]
    /\ proof_generated = FALSE
    /\ job_id = None
    /\ network_used = FALSE
    /\ result = NoResult
    /\ response = NoResponse
    /\ backend = "none"
    /\ outcome = NoOutcome
    /\ proveCalls = NoCalls
    /\ verifyCalls = 0

(***************************************************************************)
(* SpecProgram: the zkVM program (program/src/main.rs) on the grids it     *)
(* reads from its input stream, then create_proof_fixture (evm.rs) on the  *)
(* bytes it committed.  The input stream holds the example grids of        *)
(* evm.rs changed by up to MaxEdits edits.                                 *)
(***************************************************************************)
\* Cells the input generator rewrites, and the values it writes into them.
EditCells == {<<0, 0>>, <<0, 1>>, <<1, 0>>, <<1, 1>>}

EditValues == {0, 3, 5, 6, 7, 10, U8_MAX}

\* Pairs of rows the input generator exchanges: inside a band, across bands.
SwapPairs == {<<0, 1>>, <<0, 3>>}

SetCell(g, i, j, v) == [g EXCEPT ![i][j] = v]

SwapRows(g, r1, r2) == [g EXCEPT ![r1] = g[r2], ![r2] = g[r1]]

InitProgram ==
    /\ pc = "stdin"
    /\ board \in {ToGrid(ExampleBoardRows), EmptyGrid}
    /\ solution = ToGrid(ExampleSolutionRows)
    /\ edits = 0
    /\ is_valid = FALSE
    /\ public_values = <<>>
    /\ fixture_is_valid = FALSE
    /\ SP1_PROVER = None
    /\ NETWORK_PRIVATE_KEY = None
    /\ HandlerIdle

EditBoard ==
    /\ pc = "stdin"
    /\ edits < MaxEdits
    /\ \E c \in EditCells : \E v \in EditValues :
          /\ board[c[1]][c[2]] # v
          /\ board' = SetCell(board, c[1], c[2], v)
    /\ edits' = edits + 1
    /\ UNCHANGED <<pc, solution, is_valid, public_values, fixture_is_valid, handlerVars>>

EditSolution ==
    /\ pc = "stdin"
    /\ edits < MaxEdits
    /\ \E c \in EditCells : \E v \in EditValues :
          /\ solution[c[1]][c[2]] # v
          /\ solution' = SetCell(solution, c[1], c[2], v)
    /\ edits' = edits + 1
    /\ UNCHANGED <<pc, board, is_valid, public_values, fixture_is_valid, handlerVars>>

SwapSolutionRows ==
    /\ pc = "stdin"
    /\ edits < MaxEdits
    /\ \E p \in SwapPairs : solution' = SwapRows(solution, p[1], p[2])
    /\ edits' = edits + 1
    /\ UNCHANGED <<pc, board, is_valid, public_values, fixture_is_valid, handlerVars>>

\* main of the zkVM program: read both grids, verify, commit the result.
ProgramMain ==
    /\ pc = "stdin"
    /\ is_valid' = verify_sudoku(board, solution)
    /\ public_values' = abi_encode(is_valid')
    /\ pc' = "committed"
    /\ UNCHANGED <<board, solution, edits, fixture_is_valid, handlerVars>>

\* create_proof_fixture: read is_valid back from the public values.
CreateProofFixture ==
    /\ pc = "committed"
    /\ fixture_is_valid' = DecodeIsValid(public_values)
    /\ pc' = "fixture"
    /\ UNCHANGED <<board, solution, edits, is_valid, public_values, handlerVars>>

NextProgram ==
    \/ EditBoard
    \/ EditSolution
    \/ SwapSolutionRows
    \/ ProgramMain
    \/ CreateProofFixture

SpecProgram == InitProgram /\ [][NextProgram]_vars

(***************************************************************************)
(* The API server (script/src/bin/main.rs).                                *)
(*                                                                         *)
(* Rust control flow: a block either returns a value or unwinds with a     *)
(* panic.  A Result is a record with tag "Ok" or "Err".                    *)
(***************************************************************************)
Ok(proof, job) == [tag |-> "Ok", err |-> <<>>, proof |-> proof, job |-> job]

Err(msg) == [tag |-> "Err", err |-> msg, proof |-> <<>>, job |-> None]

Return(v) == [flow |-> "Return", val |-> v]

Unwind == [flow |-> "Unwind", val |-> NoResult]

\* Json<SudokuRequest>: every cell must fit a u8 ...
FitsAnyUnsigned(v) == v >= 0

FitsU8(v) == v >= 0 /\ v <= U8_MAX

\* ... and both grids must be arrays of exactly 9 arrays of exactly 9 cells.
IsGridJson(rows) ==
    /\ Len(rows) = SUDOKU_SIZE
    /\ \A r \in 1 .. Len(rows) :
          /\ Len(rows[r]) = SUDOKU_SIZE
          /\ \A c \in 1 .. Len(rows[r]) : FitsU8(rows[r][c])

Deserializes(body) == IsGridJson(body.board) /\ IsGridJson(body.solution)

\* The request bodies the clients send.
EmptyBoardRows == [r \in 1 .. SUDOKU_SIZE |-> [c \in 1 .. SUDOKU_SIZE |-> 0]]

SetRaw(rows, r, c, v) == [rows EXCEPT ![r][c] = v]

RequestBodies ==
    { [board |-> ExampleBoardRows, solution |-> ExampleSolutionRows],
      [board |-> EmptyBoardRows, solution |-> ExampleSolutionRows],
      \* a clue rewritten by the solution
      [board |-> ExampleBoardRows, solution |-> SetRaw(ExampleSolutionRows, 1, 1, 6)],
      \* two 5s in row 0
      [board |-> EmptyBoardRows, solution |-> SetRaw(ExampleSolutionRows, 1, 2, 5)],
      \* a zero in the solution
      [board |-> ExampleBoardRows, solution |-> SetRaw(ExampleSolutionRows, 1, 3, 0)],
      \* values above 9 that fit a u8
      [board |-> ExampleBoardRows, solution |-> SetRaw(ExampleSolutionRows, 1, 3, 10)],
      [board |-> SetRaw(ExampleBoardRows, 1, 3, 15),
       solution |-> SetRaw(ExampleSolutionRows, 1, 3, 15)],
      [board |-> SetRaw(ExampleBoardRows, 1, 3, U8_MAX), solution |-> ExampleSolutionRows],
      \* values that do not fit a u8
      [board |-> ExampleBoardRows, solution |-> SetRaw(ExampleSolutionRows, 1, 3, U8_MAX + 1)],
      [board |-> SetRaw(ExampleBoardRows, 1, 3, -1), solution |-> ExampleSolutionRows],
      \* wrong dimensions
      [board |-> SubSeq(ExampleBoardRows, 1, SUDOKU_SIZE - 1), solution |-> ExampleSolutionRows],
      [board |-> ExampleBoardRows,
       solution |-> [ExampleSolutionRows EXCEPT ![1] = Append(@, 1)]] }

\* The values the two environment variables take.
ProverSettings == {None, Some("local"), Some("network"), Some("mock")}

KeySettings == {None, Some(""), Some("YOUR_PRIVATE_KEY_HERE"), Some("0xkey")}

\* How the proving backend behaves when it is driven: client construction or
\* key setup panics, or prove returns a proof, returns an error, or panics.
ProveOutcomes == {"ok", "err", "panic", "setup_panic"}

VerifyOutcomes == {"ok", "err", "panic"}

\* Seconds since the epoch read by SystemTime::now().
Clock == {1767225600, 1767225601}

unwrap_or(opt, default) == IF opt = None THEN default ELSE opt[1]

\* std::env::var("SP1_PROVER").unwrap_or("local") == "network"
use_network(env) == unwrap_or(env, "local") = "network"

\* if is_valid { .. prove .. }
AfterVerifyAlwaysProve(valid) == "select"

AfterVerify(valid) == IF valid THEN "select" ELSE "respond"

\* generate_network_proof, the credential part
CheckPrivateKeyPlaceholderOnly(env) ==
    IF env = None
    THEN Err(<<"Please set your NETWORK_PRIVATE_KEY environment variable">>)
    ELSE IF env[1] = "YOUR_PRIVATE_KEY_HERE"
    THEN Err(<<"Please set a valid NETWORK_PRIVATE_KEY environment variable">>)
    ELSE Ok(<<>>, None)

CheckPrivateKey(env) ==
    IF env = None
    THEN Err(<<"Please set your NETWORK_PRIVATE_KEY environment variable">>)
    ELSE IF env[1] = "YOUR_PRIVATE_KEY_HERE" \/ env[1] = ""
    THEN Err(<<"Please set a valid NETWORK_PRIVATE_KEY environment variable">>)
    ELSE Ok(<<>>, None)

\* The closure given to catch_unwind: from_env, setup, prove().plonk().run().
NetworkClosure(o) ==
    IF o \in {"panic", "setup_panic"} THEN Unwind
    ELSE IF o = "ok" THEN Return(Ok(<<"proof">>, None))
    ELSE Return(Err(<<"Failed to generate network proof: ", "e">>))

\* std::panic::catch_unwind: a panic of the block becomes Err(payload).
catch_unwind_absent(block) ==
    IF block.flow = "Unwind" THEN Unwind
    ELSE Return([caught |-> FALSE, inner |-> block.val])

catch_unwind(block) ==
    IF block.flow = "Unwind" THEN Return([caught |-> TRUE, inner |-> NoResult])
    ELSE Return([caught |-> FALSE, inner |-> block.val])

\* format!("net_proof_{}", secs)
FormatJobId(secs) == <<"net_proof_", secs>>

\* match result { Ok(Ok(proof)) .., Ok(Err(e)) .., Err(_) .. }
NetworkResult(caught, secs) ==
    IF caught.caught
    THEN Err(<<"Network proof generation panicked - this usually indicates authentication or network issues">>)
    ELSE IF caught.inner.tag = "Ok"
    THEN Ok(caught.inner.proof, Some(FormatJobId(secs)))
    ELSE caught.inner

\* generate_local_proof up to the `?` after run()
LocalProveExpect(o) ==
    IF o \in {"panic", "setup_panic", "err"} THEN Unwind
    ELSE Return(Ok(<<"proof">>, None))

LocalProveFlow(o) ==
    IF o \in {"panic", "setup_panic"} THEN Unwind
    ELSE IF o = "ok" THEN Return(Ok(<<"proof">>, None))
    ELSE Return(Err(<<"Failed to generate local proof: ", "e">>))

\* client.verify(&proof, &vk).map_err(..)?; Ok(proof.bytes())
LocalVerifyFlow(v, proof) ==
    IF v = "panic" THEN Unwind
    ELSE IF v = "ok" THEN Return(Ok(proof, None))
    ELSE Return(Err(<<"Failed to verify local proof: ", "e">>))

\* The locals of validate_sudoku after `match generate_network_proof(..)`.
Locals(pg, jid, nu) == [proof_generated |-> pg, job_id |-> jid, network_used |-> nu]

NetworkArmsMarkUsed(r, cur) ==
    IF r.tag = "Ok" THEN Locals(TRUE, r.job, TRUE)
    ELSE Locals(cur.proof_generated, cur.job_id, TRUE)

NetworkArms(r, cur) ==
    IF r.tag = "Ok" THEN Locals(TRUE, r.job, TRUE) ELSE cur

\* The locals of validate_sudoku after `match generate_local_proof(..)`.
LocalArms(r, cur) ==
    IF r.tag = "Ok" THEN Locals(TRUE, cur.job_id, cur.network_used) ELSE cur

\* Where the handler goes after the network match: to the response.
AfterNetworkMatchFallback(r) == IF r.tag = "Err" THEN "local_proof" ELSE "respond"

AfterNetworkMatch(r) == "respond"

\* Json(SudokuResponse { is_valid, proof_generated, job_id, network_used })
SudokuResponseProvedOnly(v, pg, jid, nu) ==
    [sent |-> TRUE, is_valid |-> v /\ pg, proof_generated |-> pg,
     job_id |-> jid, network_used |-> nu]

SudokuResponse(v, pg, jid, nu) ==
    [sent |-> TRUE, is_valid |-> v, proof_generated |-> pg,
     job_id |-> jid, network_used |-> nu]

Init ==
    /\ pc = "idle"
    /\ board = EmptyGrid
    /\ solution = EmptyGrid
    /\ edits = 0
    /\ is_valid = FALSE
    /\ public_values = <<>>
    /\ fixture_is_valid = FALSE
    /\ SP1_PROVER \in ProverSettings
    /\ NETWORK_PRIVATE_KEY \in KeySettings
    /\ HandlerIdle

env == <<SP1_PROVER, NETWORK_PRIVATE_KEY>>

\* A request arrives; the Json extractor decodes it or rejects it.
Receive ==
    /\ pc = "idle"
    /\ \E body \in RequestBodies :
          /\ raw' = body
          /\ IF Deserializes(body)
             THEN /\ board' = ToGrid(body.board)
                  /\ solution' = ToGrid(body.solution)
                  /\ pc' = "received"
             ELSE /\ pc' = "rejected"
                  /\ UNCHANGED <<board, solution>>
    /\ UNCHANGED <<is_valid, proof_generated, job_id, network_used, result, response,
                   backend, outcome, proveCalls, verifyCalls, env, programVars>>

\* validate_sudoku, lines 72-83: verify, initialise the locals, branch.
Validate ==
    /\ pc = "received"
    /\ is_valid' = verify_sudoku(board, solution)
    /\ verifyCalls' = verifyCalls + 1
    /\ proof_generated' = FALSE
    /\ job_id' = None
    /\ network_used' = FALSE
    /\ pc' = AfterVerify(is_valid')
    /\ UNCHANGED <<board, solution, raw, result, response, backend, outcome,
                   proveCalls, env, programVars>>

\* validate_sudoku, lines 84-91 and 103-105: pick the backend.
SelectBackend ==
    /\ pc = "select"
    /\ IF use_network(SP1_PROVER)
       THEN backend' = "Remote" /\ pc' = "network_proof"
       ELSE backend' = "Local" /\ pc' = "local_proof"
    /\ UNCHANGED <<board, solution, raw, is_valid, proof_generated, job_id, network_used,
                   result, response, outcome, proveCalls, verifyCalls, env, programVars>>

\* generate_network_proof, lines 132-147.
NetworkCredential ==
    /\ pc = "network_proof"
    /\ LET r == CheckPrivateKey(NETWORK_PRIVATE_KEY) IN
          IF r.tag = "Err"
          THEN result' = r /\ pc' = "network_match"
          ELSE result' = result /\ pc' = "network_prove"
    /\ UNCHANGED <<board, solution, raw, is_valid, proof_generated, job_id, network_used,
                   response, backend, outcome, proveCalls, verifyCalls, env, programVars>>

\* generate_network_proof, lines 149-190.
NetworkProve ==
    /\ pc = "network_prove"
    /\ \E o \in ProveOutcomes : \E secs \in Clock :
          LET block == catch_unwind(NetworkClosure(o)) IN
          /\ outcome' = [kind |-> o, detail |-> "prove"]
          /\ proveCalls' = IF o = "setup_panic" THEN proveCalls
                           ELSE [proveCalls EXCEPT !.Remote = @ + 1]
          /\ IF block.flow = "Unwind"
             THEN result' = result /\ pc' = "panicked"
             ELSE result' = NetworkResult(block.val, secs) /\ pc' = "network_match"
    /\ UNCHANGED <<board, solution, raw, is_valid, proof_generated, job_id, network_used,
                   response, backend, verifyCalls, env, programVars>>

\* validate_sudoku, lines 92-102.
MatchNetworkResult ==
    /\ pc = "network_match"
    /\ LET l == NetworkArms(result, Locals(proof_generated, job_id, network_used)) IN
          /\ proof_generated' = l.proof_generated
          /\ job_id' = l.job_id
          /\ network_used' = l.network_used
    /\ pc' = AfterNetworkMatch(result)
    /\ UNCHANGED <<board, solution, raw, is_valid, result, response, backend, outcome,
                   proveCalls, verifyCalls, env, programVars>>

\* generate_local_proof, lines 197-218.
LocalProve ==
    /\ pc = "local_proof"
    /\ \E o \in ProveOutcomes :
          LET block == LocalProveFlow(o) IN
          /\ outcome' = [kind |-> o, detail |-> "prove"]
          /\ proveCalls' = IF o = "setup_panic" THEN proveCalls
                           ELSE [proveCalls EXCEPT !.Local = @ + 1]
          /\ IF block.flow = "Unwind"
             THEN result' = result /\ pc' = "panicked"
             ELSE /\ result' = block.val
                  /\ pc' = IF block.val.tag = "Ok" THEN "local_verify" ELSE "local_match"
    /\ UNCHANGED <<board, solution, raw, is_valid, proof_generated, job_id, network_used,
                   response, backend, verifyCalls, env, programVars>>

\* generate_local_proof, lines 220-227.
LocalVerify ==
    /\ pc = "local_verify"
    /\ \E v \in VerifyOutcomes :
          LET block == LocalVerifyFlow(v, result.proof) IN
          /\ outcome' = [kind |-> outcome.kind, detail |-> v]
          /\ IF block.flow = "Unwind"
             THEN result' = result /\ pc' = "panicked"
             ELSE result' = block.val /\ pc' = "local_match"
    /\ UNCHANGED <<board, solution, raw, is_valid, proof_generated, job_id, network_used,
                   response, backend, proveCalls, verifyCalls, env, programVars>>

\* validate_sudoku, lines 105-113.
MatchLocalResult ==
    /\ pc = "local_match"
    /\ LET l == LocalArms(result, Locals(proof_generated, job_id, network_used)) IN
          /\ proof_generated' = l.proof_generated
          /\ job_id' = l.job_id
          /\ network_used' = l.network_used
    /\ pc' = "respond"
    /\ UNCHANGED <<board, solution, raw, is_valid, result, response, backend, outcome,
                   proveCalls, verifyCalls, env, programVars>>

\* validate_sudoku, lines 117-124.
Respond ==
    /\ pc = "respond"
    /\ response' = SudokuResponse(is_valid, proof_generated, job_id, network_used)
    /\ pc' = "responded"
    /\ UNCHANGED <<board, solution, raw, is_valid, proof_generated, job_id, network_used,
                   result, backend, outcome, proveCalls, verifyCalls, env, programVars>>

\* The request is over (answered, rejected, or its task panicked); the server
\* goes on to accept the next one.
NextRequest ==
    /\ pc \in {"responded", "rejected", "panicked"}
    /\ pc' = "idle"
    /\ board' = EmptyGrid
    /\ solution' = EmptyGrid
    /\ is_valid' = FALSE
    /\ raw' = [board |-> <<>>, solution |-> <<>>]
    /\ proof_generated' = FALSE
    /\ job_id' = None
    /\ network_used' = FALSE
    /\ result' = NoResult
    /\ response' = NoResponse
    /\ backend' = "none"
    /\ outcome' = NoOutcome
    /\ proveCalls' = NoCalls
    /\ verifyCalls' = 0
    /\ UNCHANGED <<env, programVars>>

HandlerStep ==
    \/ Validate
    \/ SelectBackend
    \/ NetworkCredential
    \/ NetworkProve
    \/ MatchNetworkResult
    \/ LocalProve
    \/ LocalVerify
    \/ MatchLocalResult
    \/ Respond

Next == Receive \/ HandlerStep \/ NextRequest

Spec == Init /\ [][Next]_vars

\* A handler that has started keeps running until it returns or panics.
FairSpec == Spec /\ WF_vars(HandlerStep)

(***************************************************************************)
(* The contract of the validator, stated on the grids themselves.          *)
(***************************************************************************)
Digits == 1 .. SUDOKU_SIZE

RowValues(s, i) == {s[i][j] : j \in Idx}

ColValues(s, j) == {s[i][j] : i \in Idx}

BlockValues(s, bi, bj) ==
    {s[i][j] : <<i, j>> \in {c \in Idx \X Idx :
                                c[1] \div GRID_SIZE = bi /\ c[2] \div GRID_SIZE = bj}}

\* Nine cells whose value set is 1..9 are a permutation of 1..9.
IsCompletion(b, s) ==
    /\ \A i \in Idx : RowValues(s, i) = Digits
    /\ \A j \in Idx : ColValues(s, j) = Digits
    /\ \A bi \in 0 .. (GRID_SIZE - 1) : \A bj \in 0 .. (GRID_SIZE - 1) :
          BlockValues(s, bi, bj) = Digits
    /\ \A i \in Idx : \A j \in Idx : b[i][j] # 0 => s[i][j] = b[i][j]

\* C1: verify_sudoku(puzzle, solution) is true exactly when every row, every
\* column and every 3x3 block of the solution is a permutation of 1..9 and the
\* solution agrees with every non-zero cell of the puzzle.
C1_VerifyIffCompletion ==
    pc # "stdin" => (is_valid <=> IsCompletion(board, solution))

\* The program accepted a pair that is not the example pair.
C1_Witness ==
    /\ pc = "committed"
    /\ is_valid
    /\ edits = MaxEdits
    /\ solution # ToGrid(ExampleSolutionRows)

Placeholders == {None, Some(""), Some("YOUR_PRIVATE_KEY_HERE")}

Abrupt == {"panic", "setup_panic"}

\* All cell values of a JSON grid, and whether it is 9 rows of 9 cells.
CellsOf(rows) == UNION {{rows[r][c] : c \in 1 .. Len(rows[r])} : r \in 1 .. Len(rows)}

RawCells == CellsOf(raw.board) \cup CellsOf(raw.solution)

IsNineByNine(rows) ==
    Len(rows) = SUDOKU_SIZE /\ \A r \in 1 .. Len(rows) : Len(rows[r]) = SUDOKU_SIZE

RawShapeOk == IsNineByNine(raw.board) /\ IsNineByNine(raw.solution)

\* C2: with the remote backend, a panic of the proving call is caught:
\* generate_network_proof returns Err, the handler does not panic and answers
\* proof_generated = false.
C2_RemoteAbruptIsFailed ==
    (backend = "Remote" /\ outcome.kind \in Abrupt) =>
        /\ pc # "panicked"
        /\ result.tag = "Err"
        /\ proof_generated = FALSE
        /\ pc = "responded" => (response.sent /\ ~ response.proof_generated)

\* The handler answered a request whose remote prove call panicked.
C2_Witness == pc = "responded" /\ backend = "Remote" /\ outcome.kind = "panic"

\* C3 as stated: whatever the backend and however its invocation ends, the
\* handler ends with a response; no handler ends by a panic.
C3_NeverPanics == pc # "panicked"

LocalAbrupt ==
    /\ pc = "panicked"
    /\ backend = "Local"
    /\ outcome.kind \in Abrupt \/ outcome.detail = "panic"

\* C3 amended: every request the handler starts on ends; it ends with a response
\* carrying two booleans, except that a panic of the local backend (which no
\* catch_unwind guards) ends it without a response.
C3_RespondsUnlessLocalAbrupt ==
    /\ [](pc = "panicked" => LocalAbrupt)
    /\ [](pc = "responded" =>
            /\ response.sent
            /\ response.is_valid \in BOOLEAN
            /\ response.proof_generated \in BOOLEAN)
    /\ (pc = "received") ~> (pc = "responded" \/ LocalAbrupt)

\* The handler answered after the local backend returned an ordinary error from
\* its verify step.
C3_Witness == pc = "responded" /\ backend = "Local" /\ outcome.detail = "err"

\* C4: with the remote backend and a credential that is unset, empty or the
\* placeholder, generate_network_proof returns Err and prove is never invoked.
C4_NoCredentialNoInvocation ==
    (backend = "Remote" /\ NETWORK_PRIVATE_KEY \in Placeholders) =>
        /\ proveCalls = NoCalls
        /\ outcome = NoOutcome
        /\ pc \notin {"network_prove", "panicked"}
        /\ pc \in {"network_match", "respond", "responded"} =>
              /\ result.tag = "Err"
              /\ result.err \in
                    {<<"Please set your NETWORK_PRIVATE_KEY environment variable">>,
                     <<"Please set a valid NETWORK_PRIVATE_KEY environment variable">>}
        /\ pc = "responded" => ~ response.proof_generated

\* The handler answered a valid request under the remote backend with an empty key.
C4_Witness == pc = "responded" /\ backend = "Remote" /\ NETWORK_PRIVATE_KEY = Some("")

\* C5: when verify_sudoku returned false no backend is selected or called, and
\* the response is is_valid = false, proof_generated = false, no job_id,
\* network_used = false.
C5_InvalidSkipsOrchestrator ==
    (verifyCalls > 0 /\ ~ is_valid) =>
        /\ backend = "none"
        /\ proveCalls = NoCalls
        /\ outcome = NoOutcome
        /\ result = NoResult
        /\ pc \in {"respond", "responded"}
        /\ pc = "responded" =>
              response = [sent |-> TRUE, is_valid |-> FALSE, proof_generated |-> FALSE,
                          job_id |-> None, network_used |-> FALSE]

\* The handler answered a request that the validator refused.
C5_Witness == pc = "responded" /\ verifyCalls = 1 /\ ~ is_valid /\ response.sent

\* C6 as stated: a body of the wrong shape or with a cell outside 0..9 is rejected
\* before the validator runs.
C6_OutOfRangeRejected ==
    (pc # "idle" /\ (~ RawShapeOk \/ \E v \in RawCells : v \notin 0 .. SUDOKU_SIZE)) =>
        pc = "rejected" /\ verifyCalls = 0 /\ backend = "none"

\* C6 amended: a body of the wrong shape or with a cell outside 0..255 is rejected
\* before the validator runs; a cell in 10..255 reaches verify_sudoku, which
\* returns false, so the request is answered is_valid = false and never reaches
\* a backend.
C6_RejectedOrRefused ==
    /\ (pc # "idle" /\ (~ RawShapeOk \/ \E v \in RawCells : v \notin 0 .. U8_MAX)) =>
          /\ pc = "rejected"
          /\ verifyCalls = 0
          /\ backend = "none"
          /\ ~ response.sent
    /\ (pc # "idle" /\ RawShapeOk /\ RawCells \subseteq 0 .. U8_MAX
          /\ \E v \in RawCells : v > SUDOKU_SIZE) =>
          /\ pc \in {"received", "respond", "responded"}
          /\ backend = "none"
          /\ proveCalls = NoCalls
          /\ verifyCalls > 0 => ~ is_valid
          /\ pc = "responded" => (response.sent /\ ~ response.is_valid)

\* A request with a cell above 9 was validated and answered.
C6_Witness ==
    /\ pc = "responded"
    /\ verifyCalls = 1
    /\ \E v \in RawCells : v > SUDOKU_SIZE

\* C7: when the validator returned true and proof generation failed, the
\* response reports is_valid = true and proof_generated = false.
C7_FailureKeepsValidity ==
    (pc = "responded" /\ is_valid /\ result.tag = "Err") =>
        /\ response.sent
        /\ response.is_valid = TRUE
        /\ response.proof_generated = FALSE

\* The handler answered after the local prove call returned an error.
C7_Witness ==
    /\ pc = "responded"
    /\ result.tag = "Err"
    /\ backend = "Local"
    /\ outcome.kind = "err"

\* C8: a response carries a job_id exactly when the remote backend produced a
\* proof, and network_used is true in exactly that case.
C8_TokenIffRemoteProof ==
    pc = "responded" =>
        /\ response.proof_generated <=> result.tag = "Ok"
        /\ response.job_id # None <=> (response.proof_generated /\ backend = "Remote")
        /\ response.network_used <=> (response.proof_generated /\ backend = "Remote")
        /\ response.job_id # None =>
              \E secs \in Clock : response.job_id = Some(FormatJobId(secs))

\* A response that carries a job_id.
C8_Witness == pc = "responded" /\ response.job_id # None /\ response.network_used

\* C10: a request invokes prove at most once, on the selected backend only; once
\* proof generation has failed nothing is invoked again, the failure stays and
\* the response reports it.
C10_OneInvocationNoRetry ==
    /\ [](/\ proveCalls.Local + proveCalls.Remote <= 1
          /\ proveCalls.Local > 0 => backend = "Local"
          /\ proveCalls.Remote > 0 => backend = "Remote")
    /\ [][(result.tag = "Err" /\ pc' # "idle") =>
            /\ proveCalls' = proveCalls
            /\ result' = result
            /\ pc' \in {"network_match", "local_match", "respond", "responded"}
            /\ pc' = "responded" => ~ response'.proof_generated]_vars

\* The handler answered after the one remote prove call returned an error.
C10_Witness ==
    /\ pc = "responded"
    /\ result.tag = "Err"
    /\ proveCalls = [Local |-> 0, Remote |-> 1]
    /\ outcome.kind = "err"

====
